---- MODULE Spec2Model ----
(***************************************************************************)
(* Model of the documentation generators of arcs_cohort_docs_tools:        *)
(*   scripts/generate_cli_command_docs.py   (CLI-Doc Generator)            *)
(*   scripts/generate_launch_docs.py        (Launch-Doc Generator)         *)
(*   scripts/generate_template_md.py        (Template Renderer helpers)    *)
(*                                                                         *)
(* A Python str is modelled as a sequence of one-character strings, so     *)
(* that splitting, trimming, searching and formatting are computed the     *)
(* way the code computes them.                                             *)
(***************************************************************************)
EXTENDS Integers, Sequences, FiniteSets, TLC

VARIABLES
    \* -- a call of extract_subcommands
    help_output,    \* its argument
    ex_return,      \* its return value
    ex_pc,          \* "call" before, "returned" after the call
    \* -- runs of generate_cli_command_docs.py main(), one per mode, on the
    \*    same arguments and the same external tool
    args_name,      \* --name (None when not given)
    args_title,     \* --title (None when not given)
    tool_result,    \* the external tool: command line -> outcome of running it
    cli_pc,         \* mode -> position in main()
    cli_calls,      \* mode -> the command lines given to subprocess.run, in order
    top_help,       \* mode -> main's top_help
    subcommands,    \* mode -> main's subcommands
    sub_i,          \* mode -> index of the for loop over subcommands
    sub_help,       \* mode -> main's sub_help
    cli_pages,      \* mode -> the pages write_markdown rendered, in order
    cli_files,      \* mode -> the files under base_dir: set of <<name, text>>
    base_dir_made,  \* mode -> base_dir.mkdir() was called
    \* -- runs of generate_launch_docs.py main(), one per mode, on the same
    \*    arguments, the same file system and the same external tool
    args_output,    \* --output, resolved (None when not given)
    dirs_before,    \* the directories that exist before the run
    pkg_listing,    \* what package_src.rglob("*") would list, in its order
    ros2_result,    \* launch file -> outcome of ros2 launch <file> --show-args
    launch_pc,      \* mode -> position in main()
    launch_dirs,    \* mode -> the directories that exist
    launch_files,   \* mode -> main's launch_files
    launch_i,       \* mode -> index of the for loop over launch_files
    output,         \* mode -> main's output
    launch_calls,   \* mode -> the launch files given to ros2 launch, in order
    launch_pages,   \* mode -> per launch file, the file name and the page text
    docs_files,     \* mode -> the files under docs_dir: set of <<name, text>>
    exit_code,      \* mode -> the exit status (None while running)
    \* -- a call of extract_dependencies
    package_files,  \* file name -> what package_dir holds under it
    dep_files,      \* the ordered candidate file names
    dep_return,     \* its return value
    dep_warned,     \* the candidates a [WARN] line was printed for, in order
    dep_pc,         \* "call" before, "returned" after the call
    \* -- a call of extract_package_metadata
    pkg_xml,        \* what package_dir holds under package.xml
    meta_return,    \* its return value: description, license, maintainers
    meta_warned,    \* a [WARN] line was printed
    meta_pc         \* "call" before, "returned" after the call

exVars == <<help_output, ex_return, ex_pc>>
cliEnv == <<args_name, args_title, tool_result>>
cliRun == <<cli_pc, cli_calls, top_help, subcommands, sub_i, sub_help,
            cli_pages, cli_files, base_dir_made>>
cliVars == <<cliEnv, cliRun>>
launchEnv == <<args_output, dirs_before, pkg_listing, ros2_result>>
launchRun == <<launch_pc, launch_dirs, launch_files, launch_i, output, launch_calls,
               launch_pages, docs_files, exit_code>>
launchVars == <<launchEnv, launchRun>>
depVars == <<package_files, dep_files, dep_return, dep_warned, dep_pc>>
metaVars == <<pkg_xml, meta_return, meta_warned, meta_pc>>
vars == <<exVars, cliVars, launchVars, depVars, metaVars>>

\* None: a value different from every str (a str has one-character elements)
None == <<"None">>

(***************************************************************************)
(* Python str primitives                                                   *)
(***************************************************************************)

\* str.isspace() / regex \s on the characters of the model's alphabet
Whitespace == {" ", "\t", "\n"}

\* the line boundary str.splitlines() recognises in the model's alphabet
LineBreak == "\n"

\* the first index >= i of s whose character is in set cs, 0 when none
RECURSIVE IndexFrom(_, _, _)
IndexFrom(s, cs, i) ==
    IF i > Len(s) THEN 0
    ELSE IF s[i] \in cs THEN i
    ELSE IndexFrom(s, cs, i + 1)

\* the first index >= i of s whose character is not in set cs, 0 when none
RECURSIVE IndexNotFrom(_, _, _)
IndexNotFrom(s, cs, i) ==
    IF i > Len(s) THEN 0
    ELSE IF s[i] \notin cs THEN i
    ELSE IndexNotFrom(s, cs, i + 1)

\* the last index <= i of s whose character is not in set cs, 0 when none
RECURSIVE LastIndexNotFrom(_, _, _)
LastIndexNotFrom(s, cs, i) ==
    IF i < 1 THEN 0
    ELSE IF s[i] \notin cs THEN i
    ELSE LastIndexNotFrom(s, cs, i - 1)

\* str.strip(): leading and trailing whitespace removed
Strip(s) ==
    LET a == IndexNotFrom(s, Whitespace, 1)
        b == LastIndexNotFrom(s, Whitespace, Len(s))
    IN  IF a = 0 THEN <<>> ELSE SubSeq(s, a, b)

\* str.split(sep) for a one-character separator: "" splits to [""]
RECURSIVE SplitOn(_, _)
SplitOn(s, sep) ==
    LET i == IndexFrom(s, {sep}, 1)
    IN  IF i = 0 THEN <<s>>
        ELSE <<SubSeq(s, 1, i - 1)>> \o SplitOn(SubSeq(s, i + 1, Len(s)), sep)

\* str.splitlines(): "" has no line, and a final line break opens no line
RECURSIVE SplitLines(_)
SplitLines(s) ==
    IF s = <<>> THEN <<>>
    ELSE LET i == IndexFrom(s, {LineBreak}, 1)
         IN  IF i = 0 THEN <<s>>
             ELSE <<SubSeq(s, 1, i - 1)>> \o SplitLines(SubSeq(s, i + 1, Len(s)))

\* needle in s  (substring test)
Contains(s, needle) ==
    \E i \in 1..(Len(s) - Len(needle) + 1) :
        SubSeq(s, i, i + Len(needle) - 1) = needle

\* sep.join(parts)
RECURSIVE Join(_, _)
Join(parts, sep) ==
    IF parts = <<>> THEN <<>>
    ELSE IF Len(parts) = 1 THEN parts[1]
    ELSE parts[1] \o sep \o Join(Tail(parts), sep)

\* [c.strip() for c in seq]
StripEach(seq) == [k \in 1..Len(seq) |-> Strip(seq[k])]

(***************************************************************************)
(* generate_cli_command_docs.py : extract_subcommands                      *)
(***************************************************************************)

\* the marker phrase "Available commands"
Marker == <<"A","v","a","i","l","a","b","l","e"," ","c","o","m","m","a","n","d","s">>

\* re.match(r"\s*{.*}", line): optional whitespace, "{", anything but a line
\* break, and a later "}"
MatchBraceLine(line) ==
    LET j == IndexNotFrom(line, Whitespace, 1)
    IN  /\ j # 0
        /\ line[j] = "{"
        /\ \E k \in (j + 1)..Len(line) :
              /\ line[k] = "}"
              /\ \A t \in (j + 1)..(k - 1) : line[t] # LineBreak

\* re.search(r"{([^}]+)}", s) from index i on: group 1 of the leftmost match,
\* None when there is none
RECURSIVE SearchBraceGroupFrom(_, _)
SearchBraceGroupFrom(s, i) ==
    IF i > Len(s) THEN None
    ELSE LET k == IndexFrom(s, {"}"}, i + 1)
         IN  IF s[i] = "{" /\ k > i + 1
             THEN SubSeq(s, i + 1, k - 1)
             ELSE SearchBraceGroupFrom(s, i + 1)

SearchBraceGroup(s) == SearchBraceGroupFrom(s, 1)

\* FindCmdBlock with the brace test made before the marker test: only a line
\* after the marker line can be the command block
RECURSIVE FindCmdBlock_AfterMarkerOnly(_, _, _)
FindCmdBlock_AfterMarkerOnly(lines, i, commands_section) ==
    IF i > Len(lines) THEN <<>>
    ELSE IF commands_section /\ MatchBraceLine(lines[i])
         THEN lines[i]
         ELSE FindCmdBlock_AfterMarkerOnly(lines, i + 1,
                  commands_section \/ Contains(lines[i], Marker))

\* FindCmdBlock without the commands_section test
RECURSIVE FindCmdBlock_NoMarker(_, _, _)
FindCmdBlock_NoMarker(lines, i, commands_section) ==
    IF i > Len(lines) THEN <<>>
    ELSE IF MatchBraceLine(lines[i])
         THEN lines[i]
         ELSE FindCmdBlock_NoMarker(lines, i + 1, commands_section)

\* the for loop of extract_subcommands from line i on: the first line, once
\* the marker has been seen, that matches the brace pattern; "" when none
RECURSIVE FindCmdBlock(_, _, _)
FindCmdBlock(lines, i, commands_section) ==
    IF i > Len(lines) THEN <<>>
    ELSE LET section == commands_section \/ Contains(lines[i], Marker)
         IN  IF section /\ MatchBraceLine(lines[i])
             THEN lines[i]
             ELSE FindCmdBlock(lines, i + 1, section)

extract_subcommands(text) ==
    LET lines == SplitLines(text)
        cmd_block == FindCmdBlock(lines, 1, FALSE)
        group == SearchBraceGroup(cmd_block)
    IN  IF group = None THEN <<>>
        ELSE StripEach(SplitOn(group, ","))

(***************************************************************************)
(* generate_cli_command_docs.py : run_help, write_markdown, main           *)
(***************************************************************************)

Modes == {"dry", "real"}

\* args.dry_run of the run in mode m
DryRun(m) == m = "dry"

\* --command
Tool == <<"t">>

\* "-h"
HelpFlag == <<"-","h">>

\* the outcomes of subprocess.run(cmd, capture_output=True, text=True, check=True):
\* exit status 0, a non-zero exit status (CalledProcessError), or the process
\* could not be started (OSError, e.g. the executable is not on PATH)
Ok(out) == [kind |-> "ok", stdout |-> out, stderr |-> <<>>]
NonZero(err) == [kind |-> "nonzero", stdout |-> <<>>, stderr |-> err]
NotStarted == [kind |-> "oserror", stdout |-> <<>>, stderr |-> <<>>]

\* "[ERROR] Failed to run "
ErrFailedToRun == <<"[","E","R","R","O","R","]"," ","F","a","i","l","e","d"," ","t","o"," ","r","u","n"," ">>

\* the exceptions of subprocess.run that run_help's except clause lets through
Raises_WithoutExcept(outcome) == outcome.kind # "ok"

Raises(outcome) == outcome.kind = "oserror"

\* run_help(cmd) when subprocess.run ends in outcome and nothing is raised
run_help(cmd, outcome) ==
    IF outcome.kind = "ok"
    THEN Strip(outcome.stdout)
    ELSE ErrFailedToRun \o Join(cmd, <<" ">>) \o <<":", "\n">> \o Strip(outcome.stderr)

\* the backquote character (a TLA+ string cannot hold one), and the code fence
Backquote == "<backquote>"
Fence == <<Backquote, Backquote, Backquote>>

\* md of write_markdown: f"# {title}\n\n```{content}```"
Markdown(title, content) ==
    <<"#", " ">> \o title \o <<"\n", "\n">> \o Fence \o content \o Fence

\* path.write_text(text) on a directory's files
WriteText(files, name, text) ==
    {f \in files : f[1] # name} \cup {<<name, text>>}

\* write_markdown that writes the file in a dry run too
write_markdown_AlwaysWrites(files, path, title, content, dry_run) ==
    [page |-> [path |-> path, text |-> Markdown(title, content)],
     files |-> WriteText(files, path, Markdown(title, content))]

\* write_markdown(path, title, content, dry_run): the page it renders (printed
\* in a dry run, written otherwise) and the files afterwards
write_markdown(files, path, title, content, dry_run) ==
    LET md == Markdown(title, content)
    IN  [page |-> [path |-> path, text |-> md],
         files |-> IF dry_run THEN files ELSE WriteText(files, path, md)]

\* top_name = args.name or tool
TopName == IF args_name = None \/ args_name = <<>> THEN Tool ELSE args_name

\* title = args.title or f"{tool} CLI"
TopTitle ==
    IF args_title = None \/ args_title = <<>> THEN Tool \o <<" ", "C", "L", "I">>
    ELSE args_title

\* f"{top_name}.md"
TopPath == TopName \o <<".", "m", "d">>

\* f"{top_name}_{sub}.md" without the subcommand
SubPath_NoSub(sub) == TopName \o <<"_">> \o <<".", "m", "d">>

\* f"{top_name}_{sub}.md"
SubPath(sub) == TopName \o <<"_">> \o sub \o <<".", "m", "d">>

\* f"{tool} {sub}"
SubTitle(sub) == Tool \o <<" ">> \o sub

TopCmd == <<Tool, HelpFlag>>
SubCmd(sub) == <<Tool, sub, HelpFlag>>

\* main(): base_dir.mkdir(parents=True, exist_ok=True) unless dry_run
CliStart(m) ==
    /\ cli_pc[m] = "start"
    /\ base_dir_made' = [base_dir_made EXCEPT ![m] = ~DryRun(m)]
    /\ cli_pc' = [cli_pc EXCEPT ![m] = "top_help"]
    /\ UNCHANGED <<cliEnv, cli_calls, top_help, subcommands, sub_i, sub_help,
                   cli_pages, cli_files>>

\* main(): top_help = run_help([tool, "-h"])
CliTopHelp(m) ==
    /\ cli_pc[m] = "top_help"
    /\ cli_calls' = [cli_calls EXCEPT ![m] = Append(@, TopCmd)]
    /\ IF Raises(tool_result[TopCmd])
       THEN /\ cli_pc' = [cli_pc EXCEPT ![m] = "crashed"]
            /\ UNCHANGED top_help
       ELSE /\ cli_pc' = [cli_pc EXCEPT ![m] = "write_top"]
            /\ top_help' = [top_help EXCEPT ![m] = run_help(TopCmd, tool_result[TopCmd])]
    /\ UNCHANGED <<cliEnv, subcommands, sub_i, sub_help, cli_pages, cli_files,
                   base_dir_made>>

\* main(): write_markdown(top_path, title, top_help, dry_run=args.dry_run)
CliWriteTop(m) ==
    /\ cli_pc[m] = "write_top"
    /\ LET w == write_markdown(cli_files[m], TopPath, TopTitle, top_help[m], DryRun(m))
       IN  /\ cli_pages' = [cli_pages EXCEPT ![m] = Append(@, w.page)]
           /\ cli_files' = [cli_files EXCEPT ![m] = w.files]
    /\ cli_pc' = [cli_pc EXCEPT ![m] = "extract"]
    /\ UNCHANGED <<cliEnv, cli_calls, top_help, subcommands, sub_i, sub_help,
                   base_dir_made>>

\* main(): subcommands = extract_subcommands(top_help)
CliExtract(m) ==
    /\ cli_pc[m] = "extract"
    /\ subcommands' = [subcommands EXCEPT ![m] = extract_subcommands(top_help[m])]
    /\ sub_i' = [sub_i EXCEPT ![m] = 1]
    /\ cli_pc' = [cli_pc EXCEPT ![m] = "loop"]
    /\ UNCHANGED <<cliEnv, cli_calls, top_help, sub_help, cli_pages, cli_files,
                   base_dir_made>>

\* main(), in the loop: sub_help = run_help([tool, sub, "-h"])
CliSubHelp(m) ==
    /\ cli_pc[m] = "loop"
    /\ sub_i[m] <= Len(subcommands[m])
    /\ LET cmd == SubCmd(subcommands[m][sub_i[m]])
       IN  /\ cli_calls' = [cli_calls EXCEPT ![m] = Append(@, cmd)]
           /\ IF Raises(tool_result[cmd])
              THEN /\ cli_pc' = [cli_pc EXCEPT ![m] = "crashed"]
                   /\ UNCHANGED sub_help
              ELSE /\ cli_pc' = [cli_pc EXCEPT ![m] = "write_sub"]
                   /\ sub_help' = [sub_help EXCEPT ![m] = run_help(cmd, tool_result[cmd])]
    /\ UNCHANGED <<cliEnv, top_help, subcommands, sub_i, cli_pages, cli_files,
                   base_dir_made>>

\* main(), in the loop: write_markdown(sub_path, f"{tool} {sub}", sub_help, ...)
CliWriteSub(m) ==
    /\ cli_pc[m] = "write_sub"
    /\ LET sub == subcommands[m][sub_i[m]]
           w == write_markdown(cli_files[m], SubPath(sub), SubTitle(sub), sub_help[m],
                               DryRun(m))
       IN  /\ cli_pages' = [cli_pages EXCEPT ![m] = Append(@, w.page)]
           /\ cli_files' = [cli_files EXCEPT ![m] = w.files]
    /\ sub_i' = [sub_i EXCEPT ![m] = @ + 1]
    /\ cli_pc' = [cli_pc EXCEPT ![m] = "loop"]
    /\ UNCHANGED <<cliEnv, cli_calls, top_help, subcommands, sub_help, base_dir_made>>

\* main(): the loop is over, the last print, exit status 0
CliFinish(m) ==
    /\ cli_pc[m] = "loop"
    /\ sub_i[m] > Len(subcommands[m])
    /\ cli_pc' = [cli_pc EXCEPT ![m] = "done"]
    /\ UNCHANGED <<cliEnv, cli_calls, top_help, subcommands, sub_i, sub_help,
                   cli_pages, cli_files, base_dir_made>>

(***************************************************************************)
(* Inputs of the CLI-Doc Generator: the arguments and what the tool answers*)
(***************************************************************************)

\* "usage: t\nAvailable commands:\n  {a, b}\n"
H_usual == <<"u","s","a","g","e",":"," ","t","\n","A","v","a","i","l","a","b","l","e"," ","c","o","m","m","a","n","d","s",":","\n"," "," ","{","a",","," ","b","}","\n">>
\* "Available commands:\n{a,a}"
H_repeated == <<"A","v","a","i","l","a","b","l","e"," ","c","o","m","m","a","n","d","s",":","\n","{","a",",","a","}">>
\* "no commands"
H_none == <<"n","o"," ","c","o","m","m","a","n","d","s">>
\* "Available commands:\n{a,,b}"
H_gap == <<"A","v","a","i","l","a","b","l","e"," ","c","o","m","m","a","n","d","s",":","\n","{","a",",",",","b","}">>
\* " h\n"
H_sub == <<" ","h","\n">>
\* "e\n"
E_plain == <<"e","\n">>
\* "Available commands:\n{b}"
E_listing == <<"A","v","a","i","l","a","b","l","e"," ","c","o","m","m","a","n","d","s",":","\n","{","b","}">>

\* the names a sample help text can list
SubNames == {<<"a">>, <<"b">>, <<>>}

TopOutcomes ==
    {Ok(H_usual), Ok(H_repeated), Ok(H_none), Ok(H_gap),
     NonZero(E_plain), NonZero(E_listing), NotStarted}

SubOutcomes == {Ok(H_sub), NonZero(E_plain), NotStarted}

ToolResults ==
    {[cmd \in {TopCmd} \cup {SubCmd(sub) : sub \in SubNames} |->
         IF cmd = TopCmd THEN top ELSE subs[cmd[2]]] :
       top \in TopOutcomes, subs \in [SubNames -> SubOutcomes]}

CliRunInit ==
    /\ cli_pc = [m \in Modes |-> "start"]
    /\ cli_calls = [m \in Modes |-> <<>>]
    /\ top_help = [m \in Modes |-> <<>>]
    /\ subcommands = [m \in Modes |-> <<>>]
    /\ sub_i = [m \in Modes |-> 0]
    /\ sub_help = [m \in Modes |-> <<>>]
    /\ cli_pages = [m \in Modes |-> <<>>]
    /\ cli_files = [m \in Modes |-> {}]
    /\ base_dir_made = [m \in Modes |-> FALSE]


(***************************************************************************)
(* generate_launch_docs.py : main                                          *)
(***************************************************************************)

\* pathlib: the parents of an absolute path and the path itself
Ancestors(path) ==
    {path} \cup {SubSeq(path, 1, i - 1) : i \in {t \in 2..Len(path) : path[t] = "/"}}

\* pathlib: path / name
Child(path, name) == path \o <<"/">> \o name

\* pathlib: Path.name
PathName(path) == LET parts == SplitOn(path, "/") IN parts[Len(parts)]

\* the last index of s whose character is c, 0 when none
RECURSIVE LastIndexOf(_, _, _)
LastIndexOf(s, c, i) ==
    IF i < 1 THEN 0
    ELSE IF s[i] = c THEN i
    ELSE LastIndexOf(s, c, i - 1)

\* pathlib: Path.stem, the name without its last suffix
PathStem(path) ==
    LET name == PathName(path)
        i == LastIndexOf(name, ".", Len(name))
    IN  IF 1 < i /\ i < Len(name) THEN SubSeq(name, 1, i - 1) ELSE name

\* pathlib: path.relative_to(base), for a path under base
RelativeTo(path, base) == SubSeq(path, Len(base) + 2, Len(path))

\* str.endswith
EndsWith(s, suffix) ==
    /\ Len(suffix) <= Len(s)
    /\ SubSeq(s, Len(s) - Len(suffix) + 1, Len(s)) = suffix

\* args.workspace.resolve(): "/w"
WorkspaceDir == <<"/","w">>

\* --package-name: "p"
PackageName == <<"p">>

\* workspace_dir / "launch_docs"
DefaultDocsBase == Child(WorkspaceDir, <<"l","a","u","n","c","h","_","d","o","c","s">>)

\* docs_dir = base_docs_dir / args.package_name
DocsDir ==
    Child(IF args_output = None THEN DefaultDocsBase ELSE args_output, PackageName)

\* package_src = workspace_dir / "src" / args.package_name
PackageSrc == Child(Child(WorkspaceDir, <<"s","r","c">>), PackageName)

\* "launch" and ".launch.py", the two parts of the pattern "launch/*.launch.py"
LaunchDirName == <<"l","a","u","n","c","h">>
LaunchSuffix == <<".","l","a","u","n","c","h",".","p","y">>

\* path matches package_src.rglob("launch/*.launch.py"): a name ending in
\* .launch.py directly in a directory named launch, at any depth
MatchesLaunchPattern(path) ==
    LET parts == SplitOn(RelativeTo(path, PackageSrc), "/")
    IN  /\ Len(parts) >= 2
        /\ parts[Len(parts) - 1] = LaunchDirName
        /\ EndsWith(parts[Len(parts)], LaunchSuffix)

\* list(package_src.rglob("launch/*.launch.py")): the matching paths, in the
\* order the directory walk meets them
RECURSIVE RglobLaunch(_)
RglobLaunch(listing) ==
    IF listing = <<>> THEN <<>>
    ELSE IF MatchesLaunchPattern(Head(listing))
         THEN <<Head(listing)>> \o RglobLaunch(Tail(listing))
         ELSE RglobLaunch(Tail(listing))

\* "[ERROR] Failed to show args for "
ErrFailedToShow == <<"[","E","R","R","O","R","]"," ","F","a","i","l","e","d"," ","t","o"," ","s","h","o","w"," ","a","r","g","s"," ","f","o","r"," ">>

\* the exceptions of subprocess.run that main's except clause lets through
LaunchRaises(outcome) == outcome.kind = "oserror"

\* the try/except of main's loop: output, when nothing is raised
ShowArgsOutput(launch_file, outcome) ==
    IF outcome.kind = "ok"
    THEN Strip(outcome.stdout)
    ELSE ErrFailedToShow \o <<Backquote>> \o launch_file \o <<Backquote, ":", "\n">>
         \o outcome.stderr

\* filename = f"{launch_file.stem}.md"
DocFileName(launch_file) == PathStem(launch_file) \o <<".", "m", "d">>

\* the four writes of main's loop, concatenated
LaunchPageText(launch_file, out) ==
    <<"#", " ", Backquote>> \o PathName(launch_file) \o <<Backquote, "\n", "\n">>
    \o <<"*", "*", "P", "a", "t", "h", "*", "*", ":", " ", Backquote>>
    \o RelativeTo(launch_file, WorkspaceDir) \o <<Backquote, "\n", "\n">>
    \o Fence \o <<"\n">> \o out \o <<"\n">> \o Fence

\* a run has ended: normally, by sys.exit(1), or by an uncaught exception
Ended(pc) == pc \in {"done", "exited", "crashed"}

\* main(): docs_dir.mkdir(parents=True, exist_ok=True) unless dry_run
LaunchStart(m) ==
    /\ launch_pc[m] = "start"
    /\ launch_dirs' = [launch_dirs EXCEPT ![m] =
                          IF DryRun(m) THEN @ ELSE @ \cup Ancestors(DocsDir)]
    /\ launch_pc' = [launch_pc EXCEPT ![m] = "validate"]
    /\ UNCHANGED <<launchEnv, launch_files, launch_i, output, launch_calls,
                   launch_pages, docs_files, exit_code>>

\* main(): sys.exit(1) unless package_src exists, else list the launch files
LaunchValidate(m) ==
    /\ launch_pc[m] = "validate"
    /\ IF PackageSrc \notin launch_dirs[m]
       THEN /\ exit_code' = [exit_code EXCEPT ![m] = 1]
            /\ launch_pc' = [launch_pc EXCEPT ![m] = "exited"]
            /\ UNCHANGED <<launch_files, launch_i>>
       ELSE /\ launch_files' = [launch_files EXCEPT ![m] = RglobLaunch(pkg_listing)]
            /\ launch_i' = [launch_i EXCEPT ![m] = 1]
            /\ launch_pc' = [launch_pc EXCEPT ![m] = "loop"]
            /\ UNCHANGED exit_code
    /\ UNCHANGED <<launchEnv, launch_dirs, output, launch_calls, launch_pages,
                   docs_files>>

\* main(), in the loop: subprocess.run(["ros2", "launch", file, "--show-args"])
LaunchShowArgs(m) ==
    /\ launch_pc[m] = "loop"
    /\ launch_i[m] <= Len(launch_files[m])
    /\ LET launch_file == launch_files[m][launch_i[m]]
       IN  /\ launch_calls' = [launch_calls EXCEPT ![m] = Append(@, launch_file)]
           /\ IF LaunchRaises(ros2_result[launch_file])
              THEN /\ launch_pc' = [launch_pc EXCEPT ![m] = "crashed"]
                   /\ exit_code' = [exit_code EXCEPT ![m] = 1]
                   /\ UNCHANGED output
              ELSE /\ launch_pc' = [launch_pc EXCEPT ![m] = "write"]
                   /\ output' = [output EXCEPT ![m] =
                                    ShowArgsOutput(launch_file, ros2_result[launch_file])]
                   /\ UNCHANGED exit_code
    /\ UNCHANGED <<launchEnv, launch_dirs, launch_files, launch_i, launch_pages,
                   docs_files>>

\* main(), in the loop: print the file name in a dry run, else write the page
LaunchWrite(m) ==
    /\ launch_pc[m] = "write"
    /\ LET launch_file == launch_files[m][launch_i[m]]
           filename == DocFileName(launch_file)
           text == LaunchPageText(launch_file, output[m])
       IN  IF DryRun(m)
           THEN /\ launch_pages' = [launch_pages EXCEPT ![m] =
                                       Append(@, [path |-> filename, text |-> None])]
                /\ UNCHANGED docs_files
           ELSE /\ launch_pages' = [launch_pages EXCEPT ![m] =
                                       Append(@, [path |-> filename, text |-> text])]
                /\ docs_files' = [docs_files EXCEPT ![m] = WriteText(@, filename, text)]
    /\ launch_i' = [launch_i EXCEPT ![m] = @ + 1]
    /\ launch_pc' = [launch_pc EXCEPT ![m] = "loop"]
    /\ UNCHANGED <<launchEnv, launch_dirs, launch_files, output, launch_calls, exit_code>>

\* main(): the loop is over, the last print, exit status 0
LaunchFinish(m) ==
    /\ launch_pc[m] = "loop"
    /\ launch_i[m] > Len(launch_files[m])
    /\ launch_pc' = [launch_pc EXCEPT ![m] = "done"]
    /\ exit_code' = [exit_code EXCEPT ![m] = 0]
    /\ UNCHANGED <<launchEnv, launch_dirs, launch_files, launch_i, output, launch_calls,
                   launch_pages, docs_files>>

(***************************************************************************)
(* Inputs of the Launch-Doc Generator: --output, the package's directory   *)
(* with up to MaxPkgFiles files, the order rglob lists them in, and what   *)
(* ros2 launch answers for each.                                           *)
(***************************************************************************)

MaxPkgFiles == 3

\* "/w/src/p/launch/a.launch.py"
F_a == <<"/","w","/","s","r","c","/","p","/","l","a","u","n","c","h","/","a",".","l","a","u","n","c","h",".","p","y">>
\* "/w/src/p/launch/b.launch.py"
F_b == <<"/","w","/","s","r","c","/","p","/","l","a","u","n","c","h","/","b",".","l","a","u","n","c","h",".","p","y">>
\* "/w/src/p/sim/launch/a.launch.py"
F_sim_a == <<"/","w","/","s","r","c","/","p","/","s","i","m","/","l","a","u","n","c","h","/","a",".","l","a","u","n","c","h",".","p","y">>
\* "/w/src/p/launch/launch/a.launch.py"
F_nested_a == <<"/","w","/","s","r","c","/","p","/","l","a","u","n","c","h","/","l","a","u","n","c","h","/","a",".","l","a","u","n","c","h",".","p","y">>
\* "/w/src/p/launch/notes.py"
F_notes == <<"/","w","/","s","r","c","/","p","/","l","a","u","n","c","h","/","n","o","t","e","s",".","p","y">>
\* "/w/src/p/launch/extra/c.launch.py"
F_extra_c == <<"/","w","/","s","r","c","/","p","/","l","a","u","n","c","h","/","e","x","t","r","a","/","c",".","l","a","u","n","c","h",".","p","y">>

PkgCandidates == {F_a, F_b, F_sim_a, F_nested_a, F_notes, F_extra_c}

\* "/w/src": an --output that puts docs_dir at package_src
OutputInSrc == Child(WorkspaceDir, <<"s","r","c">>)

\* the sequences that list every element of the finite set S once
RECURSIVE Orderings(_)
Orderings(S) ==
    IF S = {} THEN {<<>>}
    ELSE UNION {{<<x>> \o q : q \in Orderings(S \ {x})} : x \in S}

\* " arg\n" and "err\n"
ShowArgsOut == <<" ","a","r","g","\n">>
ShowArgsErr == <<"e","r","r","\n">>

Ros2Outcomes == {Ok(ShowArgsOut), NonZero(ShowArgsErr), NotStarted}

LaunchRunInit ==
    /\ launch_pc = [m \in Modes |-> "start"]
    /\ launch_dirs = [m \in Modes |-> dirs_before]
    /\ launch_files = [m \in Modes |-> <<>>]
    /\ launch_i = [m \in Modes |-> 0]
    /\ output = [m \in Modes |-> <<>>]
    /\ launch_calls = [m \in Modes |-> <<>>]
    /\ launch_pages = [m \in Modes |-> <<>>]
    /\ docs_files = [m \in Modes |-> {}]
    /\ exit_code = [m \in Modes |-> None]


(***************************************************************************)
(* Inputs of extract_subcommands: help texts of up to MaxLines lines drawn *)
(* from SampleLines and joined by line breaks.                             *)
(***************************************************************************)

MaxLines == 3

\* "Available commands:"
L_marker == <<"A","v","a","i","l","a","b","l","e"," ","c","o","m","m","a","n","d","s",":">>
\* "  {a, b}"
L_brace_ab == <<" "," ","{","a",","," ","b","}">>
\* "{b}"
L_brace_b == <<"{","b","}">>
\* ""
L_blank == <<>>
\* "x {a}"
L_inner == <<"x"," ","{","a","}">>
\* "{}"
L_empty_brace == <<"{","}">>
\* "{a} Available commands"
L_brace_marker == <<"{","a","}"," ","A","v","a","i","l","a","b","l","e"," ","c","o","m","m","a","n","d","s">>
\* "{}{b}"
L_two_groups == <<"{","}","{","b","}">>
\* "{}{b"
L_unclosed == <<"{","}","{","b">>
\* "{a,a}"
L_dup == <<"{","a",",","a","}">>
\* "{ }"
L_spaces == <<"{"," ","}">>
\* "{a,,b} z"
L_gap == <<"{","a",",",",","b","}"," ","z">>
\* "available commands"
L_lower == <<"a","v","a","i","l","a","b","l","e"," ","c","o","m","m","a","n","d","s">>

SampleLines == {L_marker, L_brace_ab, L_brace_b, L_blank, L_inner, L_empty_brace,
                L_brace_marker, L_two_groups, L_unclosed, L_dup, L_spaces, L_gap, L_lower}

\* all sequences over set S of length at most n
RECURSIVE SeqsUpTo(_, _)
SeqsUpTo(S, n) ==
    IF n = 0 THEN {<<>>}
    ELSE LET shorter == SeqsUpTo(S, n - 1)
         IN  shorter \cup {Append(q, x) : q \in {r \in shorter : Len(r) = n - 1}, x \in S}

HelpTexts == {Join(ls, <<LineBreak>>) : ls \in SeqsUpTo(SampleLines, MaxLines)}


(***************************************************************************)
(* generate_template_md.py : extract_dependencies                          *)
(*                                                                         *)
(* What package_dir holds under a file name is given by what the code can  *)
(* see of it: whether path.exists(), what open() and yaml.safe_load() do,  *)
(* and the value loaded.                                                   *)
(***************************************************************************)

\* a key that a mapping does not have
Absent == "<absent>"

\* no file of that name
Missing == [exists |-> FALSE, load |-> "none", key |-> "none", repos |-> <<>>]
\* path.exists(), and open() or yaml.safe_load() raises (a directory, bad YAML)
Unloadable == [exists |-> TRUE, load |-> "error", key |-> "none", repos |-> <<>>]
\* an empty document: yaml.safe_load() returns None
EmptyDocument == [exists |-> TRUE, load |-> "null", key |-> "none", repos |-> <<>>]
\* a mapping without the key "repositories"
NoRepositories == [exists |-> TRUE, load |-> "mapping", key |-> "absent", repos |-> <<>>]
\* "repositories:" with no value under it: data.get() returns None
NullRepositories == [exists |-> TRUE, load |-> "mapping", key |-> "null", repos |-> <<>>]
\* "repositories:" with a mapping of name -> info under it, in document order
Repositories(entries) ==
    [exists |-> TRUE, load |-> "mapping", key |-> "mapping", repos |-> entries]

\* info: a mapping with the keys it has, or a scalar
Info(url, version) == [is_dict |-> TRUE, url |-> url, version |-> version]
ScalarInfo == [is_dict |-> FALSE, url |-> Absent, version |-> Absent]

\* the try block raises: open() or safe_load() fails, data is None and has no
\* get(), or repos is None and has no items()
LoadRaises(file) == file.load # "mapping" \/ file.key = "null"

\* info.get(key, "")
GetOrEmpty(value) == IF value = Absent THEN "" ELSE value

\* the list comprehension over repos.items(), from entry i on
RECURSIVE DependencyRecords(_, _)
DependencyRecords(repos, i) ==
    IF i > Len(repos) THEN <<>>
    ELSE IF repos[i].info.is_dict
         THEN <<[name |-> repos[i].name,
                 url |-> GetOrEmpty(repos[i].info.url),
                 version |-> GetOrEmpty(repos[i].info.version)]>>
              \o DependencyRecords(repos, i + 1)
         ELSE DependencyRecords(repos, i + 1)

\* the for loop of extract_dependencies from candidate i on, warned being the
\* candidates warned about so far
RECURSIVE DependenciesFrom(_, _, _, _)
DependenciesFrom(files, candidates, i, warned) ==
    IF i > Len(candidates) THEN [value |-> <<>>, warned |-> warned]
    ELSE LET file == files[candidates[i]]
         IN  IF ~file.exists
             THEN DependenciesFrom(files, candidates, i + 1, warned)
             ELSE IF LoadRaises(file)
             THEN DependenciesFrom(files, candidates, i + 1,
                                   Append(warned, candidates[i]))
             ELSE [value |-> DependencyRecords(file.repos, 1), warned |-> warned]

\* the loop when a candidate that exists ends it whether or not it loads
RECURSIVE DependenciesFromFirstExisting(_, _, _, _)
DependenciesFromFirstExisting(files, candidates, i, warned) ==
    IF i > Len(candidates) THEN [value |-> <<>>, warned |-> warned]
    ELSE LET file == files[candidates[i]]
         IN  IF ~file.exists
             THEN DependenciesFromFirstExisting(files, candidates, i + 1, warned)
             ELSE IF LoadRaises(file)
             THEN [value |-> <<>>, warned |-> Append(warned, candidates[i])]
             ELSE [value |-> DependencyRecords(file.repos, 1), warned |-> warned]

extract_dependencies_FirstExistingOnly(files, candidates) ==
    DependenciesFromFirstExisting(files, candidates, 1, <<>>)

extract_dependencies(files, candidates) == DependenciesFrom(files, candidates, 1, <<>>)

(***************************************************************************)
(* Inputs of extract_dependencies: up to MaxDepFiles candidate names and a *)
(* package directory holding any sample manifest under each name.          *)
(***************************************************************************)

MaxDepFiles == 3

DepFileNames == {"dependencies.repos", "dependencies.rosinstall", "extra.repos"}

\* repositories: {r1: {url: u1, version: v1}}
ManifestOne == Repositories(<<[name |-> "r1", info |-> Info("u1", "v1")]>>)
\* repositories: {r2: {url: u2}, r3: text, r4: {version: v4}}
ManifestMixed ==
    Repositories(<<[name |-> "r2", info |-> Info("u2", Absent)],
                   [name |-> "r3", info |-> ScalarInfo],
                   [name |-> "r4", info |-> Info(Absent, "v4")]>>)

Manifests ==
    {Missing, Unloadable, EmptyDocument, NoRepositories, NullRepositories,
     ManifestOne, ManifestMixed}

(***************************************************************************)
(* generate_template_md.py : extract_package_metadata                      *)
(*                                                                         *)
(* package.xml is given by what the code can see of it: whether it exists, *)
(* whether ET.parse() raises, and the children of the root element, each   *)
(* with its tag, its text (None for an element without text) and its email *)
(* attribute (None when it has none).                                      *)
(***************************************************************************)

\* str.replace(old, new) for a one-character old
RECURSIVE Replace(_, _, _)
Replace(s, old, new) ==
    IF s = <<>> THEN <<>>
    ELSE (IF Head(s) = old THEN new ELSE <<Head(s)>>) \o Replace(Tail(s), old, new)

\* email.replace("@", " [at] ").replace(".", " [dot] ") if email else ""
Obfuscate(email) ==
    IF email = <<>> THEN <<>>
    ELSE Replace(Replace(email, "@", <<" ", "[", "a", "t", "]", " ">>),
                 ".", <<" ", "[", "d", "o", "t", "]", " ">>)

\* root.find(tag): the index of the first child with that tag, 0 when none
RECURSIVE FindChild(_, _, _)
FindChild(children, tag, i) ==
    IF i > Len(children) THEN 0
    ELSE IF children[i].tag = tag THEN i
    ELSE FindChild(children, tag, i + 1)

\* el.text.strip() raises: the element has no text
StripRaises(el) == el.text = None

\* maint_el.attrib.get("email", "")
EmailOf(el) == IF el.email = None THEN <<>> ELSE el.email

\* the loop over root.findall("maintainer") from child i on, maintainers being
\* the list appended to so far; raised tells whether strip() raised
RECURSIVE MaintainersFrom(_, _, _)
MaintainersFrom(children, i, maintainers) ==
    IF i > Len(children) THEN [value |-> maintainers, raised |-> FALSE]
    ELSE IF children[i].tag # "maintainer"
         THEN MaintainersFrom(children, i + 1, maintainers)
    ELSE IF StripRaises(children[i])
         THEN [value |-> maintainers, raised |-> TRUE]
    ELSE MaintainersFrom(children, i + 1,
             Append(maintainers,
                    [name |-> Strip(children[i].text),
                     email |-> EmailOf(children[i]),
                     obfuscated_email |-> Obfuscate(EmailOf(children[i]))]))

Metadata(description, license, maintainers, warned) ==
    [description |-> description, license |-> license, maintainers |-> maintainers,
     warned |-> warned]

\* extract_package_metadata(package_dir): the three values returned, and
\* whether the except clause printed its warning
extract_package_metadata(xml) ==
    IF ~xml.exists THEN Metadata(None, None, <<>>, FALSE)
    ELSE IF ~xml.wellformed THEN Metadata(None, None, <<>>, TRUE)
    ELSE LET d == FindChild(xml.children, "description", 1)
             l == FindChild(xml.children, "license", 1)
         IN  IF d # 0 /\ StripRaises(xml.children[d])
             THEN Metadata(None, None, <<>>, TRUE)
             ELSE LET description == IF d = 0 THEN None ELSE Strip(xml.children[d].text)
                  IN  IF l # 0 /\ StripRaises(xml.children[l])
                      THEN Metadata(description, None, <<>>, TRUE)
                      ELSE LET license == IF l = 0 THEN None
                                          ELSE Strip(xml.children[l].text)
                               ms == MaintainersFrom(xml.children, 1, <<>>)
                           IN  Metadata(description, license, ms.value, ms.raised)

(***************************************************************************)
(* Inputs of extract_package_metadata: no package.xml, one that does not   *)
(* parse, or a root element with up to MaxChildren sample children.        *)
(***************************************************************************)

MaxChildren == 3

Element(tag, text, email) == [tag |-> tag, text |-> text, email |-> email]

SampleElements ==
    {Element("description", <<" ", "d", "\n">>, None),
     Element("description", None, None),
     Element("license", <<"M", "I", "T">>, None),
     Element("license", None, None),
     Element("maintainer", <<"m", " ">>, <<"a", "@", "b", ".", "c">>),
     Element("maintainer", <<"n">>, None),
     Element("maintainer", None, <<"x", "@", "y">>)}

NoPackageXml == [exists |-> FALSE, wellformed |-> FALSE, children |-> <<>>]
NotWellFormed == [exists |-> TRUE, wellformed |-> FALSE, children |-> <<>>]

PackageXmls ==
    {NoPackageXml, NotWellFormed}
    \cup {[exists |-> TRUE, wellformed |-> TRUE, children |-> cs] :
             cs \in SeqsUpTo(SampleElements, MaxChildren)}

(***************************************************************************)
(* Specifications: one per program.  A program that a specification does   *)
(* not run stays idle.                                                     *)
(***************************************************************************)

\* extract_subcommands is not called
ExIdle ==
    /\ help_output = <<>>
    /\ ex_return = <<>>
    /\ ex_pc = "idle"

\* the CLI-Doc Generator is not run
CliIdle ==
    /\ args_name = None
    /\ args_title = None
    /\ tool_result = <<>>
    /\ cli_pc = [m \in Modes |-> "idle"]
    /\ cli_calls = [m \in Modes |-> <<>>]
    /\ top_help = [m \in Modes |-> <<>>]
    /\ subcommands = [m \in Modes |-> <<>>]
    /\ sub_i = [m \in Modes |-> 0]
    /\ sub_help = [m \in Modes |-> <<>>]
    /\ cli_pages = [m \in Modes |-> <<>>]
    /\ cli_files = [m \in Modes |-> {}]
    /\ base_dir_made = [m \in Modes |-> FALSE]

\* the Launch-Doc Generator is not run
LaunchIdle ==
    /\ args_output = None
    /\ dirs_before = {}
    /\ pkg_listing = <<>>
    /\ ros2_result = <<>>
    /\ launch_pc = [m \in Modes |-> "idle"]
    /\ launch_dirs = [m \in Modes |-> {}]
    /\ launch_files = [m \in Modes |-> <<>>]
    /\ launch_i = [m \in Modes |-> 0]
    /\ output = [m \in Modes |-> <<>>]
    /\ launch_calls = [m \in Modes |-> <<>>]
    /\ launch_pages = [m \in Modes |-> <<>>]
    /\ docs_files = [m \in Modes |-> {}]
    /\ exit_code = [m \in Modes |-> None]

\* extract_dependencies is not called
DepIdle ==
    /\ package_files = <<>>
    /\ dep_files = <<>>
    /\ dep_return = <<>>
    /\ dep_warned = <<>>
    /\ dep_pc = "idle"

\* extract_package_metadata is not called
MetaIdle ==
    /\ pkg_xml = NoPackageXml
    /\ meta_return = <<None, None, <<>>>>
    /\ meta_warned = FALSE
    /\ meta_pc = "idle"

InitExtract ==
    /\ help_output \in HelpTexts
    /\ ex_return = <<>>
    /\ ex_pc = "call"
    /\ CliIdle
    /\ LaunchIdle
    /\ DepIdle
    /\ MetaIdle

\* the call extract_subcommands(help_output)
ExtractSubcommands ==
    /\ ex_pc = "call"
    /\ ex_return' = extract_subcommands(help_output)
    /\ ex_pc' = "returned"
    /\ UNCHANGED <<help_output, cliVars, launchVars, depVars, metaVars>>

NextExtract == ExtractSubcommands

SpecExtract == InitExtract /\ [][NextExtract]_vars

InitCli ==
    /\ args_name \in {None, <<"n">>}
    /\ args_title \in {None, <<"T">>}
    /\ tool_result \in ToolResults
    /\ CliRunInit
    /\ ExIdle
    /\ LaunchIdle
    /\ DepIdle
    /\ MetaIdle

\* the two runs are separate processes that share nothing but their inputs:
\* the dry run is taken first, the real run after it has ended
CliTurn(m) == m = "dry" \/ Ended(cli_pc["dry"])

NextCli ==
    \E m \in Modes :
        \/ CliTurn(m) /\ CliStart(m) /\ UNCHANGED <<exVars, launchVars, depVars, metaVars>>
        \/ CliTurn(m) /\ CliTopHelp(m) /\ UNCHANGED <<exVars, launchVars, depVars, metaVars>>
        \/ CliTurn(m) /\ CliWriteTop(m) /\ UNCHANGED <<exVars, launchVars, depVars, metaVars>>
        \/ CliTurn(m) /\ CliExtract(m) /\ UNCHANGED <<exVars, launchVars, depVars, metaVars>>
        \/ CliTurn(m) /\ CliSubHelp(m) /\ UNCHANGED <<exVars, launchVars, depVars, metaVars>>
        \/ CliTurn(m) /\ CliWriteSub(m) /\ UNCHANGED <<exVars, launchVars, depVars, metaVars>>
        \/ CliTurn(m) /\ CliFinish(m) /\ UNCHANGED <<exVars, launchVars, depVars, metaVars>>

SpecCli == InitCli /\ [][NextCli]_vars

InitLaunch ==
    /\ args_output \in {None, OutputInSrc}
    /\ \E present \in SUBSET PkgCandidates :
          /\ Cardinality(present) <= MaxPkgFiles
          /\ pkg_listing \in Orderings(present)
          /\ ros2_result \in [present -> Ros2Outcomes]
          /\ dirs_before \in
                IF present = {} THEN {Ancestors(WorkspaceDir), Ancestors(PackageSrc)}
                ELSE {UNION {Ancestors(f) : f \in present} \ present}
    /\ LaunchRunInit
    /\ ExIdle
    /\ CliIdle
    /\ DepIdle
    /\ MetaIdle

LaunchTurn(m) == m = "dry" \/ Ended(launch_pc["dry"])

NextLaunch ==
    \E m \in Modes :
        \/ LaunchTurn(m) /\ LaunchStart(m) /\ UNCHANGED <<exVars, cliVars, depVars, metaVars>>
        \/ LaunchTurn(m) /\ LaunchValidate(m) /\ UNCHANGED <<exVars, cliVars, depVars, metaVars>>
        \/ LaunchTurn(m) /\ LaunchShowArgs(m) /\ UNCHANGED <<exVars, cliVars, depVars, metaVars>>
        \/ LaunchTurn(m) /\ LaunchWrite(m) /\ UNCHANGED <<exVars, cliVars, depVars, metaVars>>
        \/ LaunchTurn(m) /\ LaunchFinish(m) /\ UNCHANGED <<exVars, cliVars, depVars, metaVars>>

SpecLaunch == InitLaunch /\ [][NextLaunch]_vars

\* both generators, each run in both modes
InitDryRun == InitCli \/ InitLaunch

NextDryRun == NextCli \/ NextLaunch

SpecDryRun == InitDryRun /\ [][NextDryRun]_vars

InitDeps ==
    /\ package_files \in [DepFileNames -> Manifests]
    /\ dep_files \in SeqsUpTo(DepFileNames, MaxDepFiles)
    /\ dep_return = <<>>
    /\ dep_warned = <<>>
    /\ dep_pc = "call"
    /\ ExIdle
    /\ CliIdle
    /\ LaunchIdle
    /\ MetaIdle

\* the call extract_dependencies(package_dir, dep_files)
ExtractDependencies ==
    /\ dep_pc = "call"
    /\ LET r == extract_dependencies(package_files, dep_files)
       IN  /\ dep_return' = r.value
           /\ dep_warned' = r.warned
    /\ dep_pc' = "returned"
    /\ UNCHANGED <<package_files, dep_files, exVars, cliVars, launchVars, metaVars>>

NextDeps == ExtractDependencies

SpecDeps == InitDeps /\ [][NextDeps]_vars

InitMeta ==
    /\ pkg_xml \in PackageXmls
    /\ meta_return = <<None, None, <<>>>>
    /\ meta_warned = FALSE
    /\ meta_pc = "call"
    /\ ExIdle
    /\ CliIdle
    /\ LaunchIdle
    /\ DepIdle

\* the call extract_package_metadata(package_dir)
ExtractPackageMetadata ==
    /\ meta_pc = "call"
    /\ LET r == extract_package_metadata(pkg_xml)
       IN  /\ meta_return' = <<r.description, r.license, r.maintainers>>
           /\ meta_warned' = r.warned
    /\ meta_pc' = "returned"
    /\ UNCHANGED <<pkg_xml, exVars, cliVars, launchVars, depVars>>

NextMeta == ExtractPackageMetadata

SpecMeta == InitMeta /\ [][NextMeta]_vars

(***************************************************************************)
(* Claims about extract_subcommands (C1, C2), stated over the lines of the *)
(* help text.                                                              *)
(***************************************************************************)

HelpLines == SplitLines(help_output)

SetMin(S) == CHOOSE x \in S : \A y \in S : x <= y

\* the lines that contain the marker phrase
MarkerLines == {m \in 1..Len(HelpLines) : Contains(HelpLines[m], Marker)}

\* a brace-list line: optional leading whitespace, then "{", and a "}" later
IsBraceListLine(line) ==
    \E j \in 1..Len(line), k \in 1..Len(line) :
        /\ j < k
        /\ line[j] = "{"
        /\ line[k] = "}"
        /\ \A t \in 1..(j - 1) : line[t] \in Whitespace

\* the brace-list lines strictly after line m, and from line m on
BraceLinesAfter(m) == {b \in (m + 1)..Len(HelpLines) : IsBraceListLine(HelpLines[b])}
BraceLinesFrom(m) == {b \in m..Len(HelpLines) : IsBraceListLine(HelpLines[b])}

\* the text between the first "{" of a line and the first "}" after it
BraceContents(line) ==
    LET j == SetMin({t \in 1..Len(line) : line[t] = "{"})
        k == SetMin({t \in (j + 1)..Len(line) : line[t] = "}"})
    IN  SubSeq(line, j + 1, k - 1)

\* line[i] = "{" opens a non-empty brace group that line[k] = "}" closes
IsGroup(line, i, k) ==
    /\ i + 1 < k
    /\ line[i] = "{"
    /\ line[k] = "}"
    /\ \A t \in (i + 1)..(k - 1) : line[t] # "}"

GroupStarts(line) ==
    {i \in 1..Len(line) : \E k \in 1..Len(line) : IsGroup(line, i, k)}

\* the contents of the first non-empty brace group of a line
FirstGroup(line) ==
    LET i == SetMin(GroupStarts(line))
        k == CHOOSE t \in 1..Len(line) : IsGroup(line, i, t)
    IN  SubSeq(line, i + 1, k - 1)

\* comma-split and trimmed, in order
SplitTrim(s) == [n \in 1..Len(SplitOn(s, ",")) |-> Strip(SplitOn(s, ",")[n])]

\* C1 as stated: when the help text has a marker line and a brace-list line
\* after it, the result is the comma-split, trimmed contents of the first
\* brace-list line after the marker line, in order.
C1_AsStated ==
    (/\ ex_pc = "returned"
     /\ MarkerLines # {}
     /\ BraceLinesAfter(SetMin(MarkerLines)) # {})
    => ex_return =
         SplitTrim(BraceContents(HelpLines[SetMin(BraceLinesAfter(SetMin(MarkerLines)))]))

\* C1 amended: when the help text has a marker line and a brace-list line at or
\* after the first marker line (the marker line itself counts), the result is
\* the comma-split, trimmed contents of the first non-empty brace group of the
\* first such line, in order, and is empty when that line has no such group.
C1_ExtractFromFirstBraceLine ==
    (/\ ex_pc = "returned"
     /\ MarkerLines # {}
     /\ BraceLinesFrom(SetMin(MarkerLines)) # {})
    => LET line == HelpLines[SetMin(BraceLinesFrom(SetMin(MarkerLines)))]
       IN  ex_return = IF GroupStarts(line) = {} THEN <<>>
                         ELSE SplitTrim(FirstGroup(line))

\* a marker line, later a brace list of two different names, returned in order
C1_Witness ==
    /\ ex_pc = "returned"
    /\ MarkerLines # {}
    /\ BraceLinesAfter(SetMin(MarkerLines)) # {}
    /\ ~IsBraceListLine(HelpLines[SetMin(MarkerLines)])
    /\ ex_return = <<<<"a">>, <<"b">>>>

\* C2 as stated: with no marker line, or with a marker line and no brace-list
\* line after it, the result is the empty sequence.
C2_AsStated ==
    (/\ ex_pc = "returned"
     /\ \/ MarkerLines = {}
        \/ BraceLinesAfter(SetMin(MarkerLines)) = {})
    => ex_return = <<>>

\* C2 amended: with no marker line, or with no brace-list line at or after the
\* first marker line (the marker line itself counts), the result is the empty
\* sequence.
C2_EmptyWithoutMarkerOrBraceLine ==
    (/\ ex_pc = "returned"
     /\ \/ MarkerLines = {}
        \/ BraceLinesFrom(SetMin(MarkerLines)) = {})
    => ex_return = <<>>

\* a brace-list line before the marker line and none from the marker line on
C2_Witness ==
    /\ ex_pc = "returned"
    /\ MarkerLines # {}
    /\ BraceLinesFrom(SetMin(MarkerLines)) = {}
    /\ \E b \in 1..Len(HelpLines) : IsBraceListLine(HelpLines[b])
    /\ ex_return = <<>>

(***************************************************************************)
(* Claims about the CLI-Doc Generator (C3, C8)                             *)
(***************************************************************************)

\* the elements of a sequence
Range(seq) == {seq[k] : k \in 1..Len(seq)}

\* the names of the files of a directory
FileNames(files) == {f[1] : f \in files}

\* what a page holds when the call cmd exits non-zero with stderr err:
\* "[ERROR] Failed to run <cmd>:" and the trimmed error text, fenced
ErrorBody(cmd, err) ==
    ErrFailedToRun \o Join(cmd, <<" ">>) \o <<":", "\n">> \o Strip(err) \o Fence

\* C3: a help invocation that exits non-zero does not abort the run (a run
\* ends abnormally only when a process could not be started), the page of such
\* an invocation holds its error text, and a run that reaches its end has
\* rendered the top-level page and one page per discovered subcommand, in
\* order, each written to its file in a real run.
C3_NonZeroExitBecomesPage ==
    \A m \in Modes :
        /\ \A k \in 1..Len(cli_calls[m]) :
              tool_result[cli_calls[m][k]].kind = "nonzero"
              => /\ ~(cli_pc[m] = "crashed" /\ k = Len(cli_calls[m]))
                 /\ k <= Len(cli_pages[m])
                    => EndsWith(cli_pages[m][k].text,
                                ErrorBody(cli_calls[m][k],
                                          tool_result[cli_calls[m][k]].stderr))
        /\ cli_pc[m] = "done"
           => /\ Len(cli_pages[m]) = 1 + Len(subcommands[m])
              /\ cli_pages[m][1].path = TopName \o <<".", "m", "d">>
              /\ \A j \in 1..Len(subcommands[m]) :
                    cli_pages[m][j + 1].path =
                        TopName \o <<"_">> \o subcommands[m][j] \o <<".", "m", "d">>
              /\ ~DryRun(m)
                 => \A k \in 1..Len(cli_pages[m]) :
                       cli_pages[m][k].path \in FileNames(cli_files[m])

\* a finished real run in which a subcommand's help exited non-zero
C3_Witness ==
    /\ cli_pc["real"] = "done"
    /\ Len(cli_pages["real"]) >= 3
    /\ \E k \in 2..Len(cli_calls["real"]) :
          tool_result[cli_calls["real"][k]].kind = "nonzero"

\* C8 as stated: a finished real run has written exactly 1 + the number of
\* discovered subcommands files.
C8_AsStated ==
    cli_pc["real"] = "done"
    => Cardinality(cli_files["real"]) = 1 + Len(subcommands["real"])

\* C8 amended: a finished real run has written <name>.md and one file
\* <name>_<subcommand>.md per distinct discovered subcommand name, so exactly
\* 1 + the number of distinct discovered names files.
C8_OneFilePerDistinctSubcommand ==
    cli_pc["real"] = "done"
    => /\ FileNames(cli_files["real"]) =
            {TopName \o <<".", "m", "d">>}
            \cup {TopName \o <<"_">> \o sub \o <<".", "m", "d">> :
                     sub \in Range(subcommands["real"])}
       /\ Cardinality(cli_files["real"]) = 1 + Cardinality(Range(subcommands["real"]))

\* a finished real run with three different subcommands and four files
C8_Witness ==
    /\ cli_pc["real"] = "done"
    /\ Cardinality(Range(subcommands["real"])) = 3
    /\ Cardinality(cli_files["real"]) = 4

(***************************************************************************)
(* Claims about the Launch-Doc Generator (C5, C6, C7)                      *)
(***************************************************************************)

\* C5: when package_src does not exist before the run, the run, in either
\* mode, ends at the validation with exit status 1, having made no external
\* query and written no file.  (The claim also has nothing at all written to
\* the file system; the formula leaves the directories out.)
C5_AsStated ==
    \A m \in Modes :
        PackageSrc \notin dirs_before
        => /\ launch_pc[m] \notin {"loop", "write", "done", "crashed"}
           /\ launch_pc[m] = "exited" => exit_code[m] = 1
           /\ launch_calls[m] = <<>>
           /\ docs_files[m] = {}

\* C6: once validation has passed, no failure of the external query aborts the
\* batch: the run does not end abnormally, and when it ends every launch file
\* has been processed and the exit status is 0.
C6_AsStated ==
    \A m \in Modes :
        /\ launch_pc[m] # "crashed"
        /\ launch_pc[m] = "done"
           => /\ exit_code[m] = 0
              /\ launch_calls[m] = launch_files[m]
              /\ Len(launch_pages[m]) = Len(launch_files[m])

\* C7: a finished real run has written one file per discovered launch file,
\* so as many files as launch files were discovered.
C7_AsStated ==
    launch_pc["real"] = "done"
    => Cardinality(docs_files["real"]) = Len(launch_files["real"])

(***************************************************************************)
(* Claim about the two modes (C4)                                          *)
(***************************************************************************)

BothEnded(pc) == Ended(pc["dry"]) /\ Ended(pc["real"])

\* the text each file ends with when the pages are written in order
RECURSIVE FilesOfPages(_)
FilesOfPages(pages) ==
    IF pages = <<>> THEN {}
    ELSE LET last == pages[Len(pages)]
         IN  {f \in FilesOfPages(SubSeq(pages, 1, Len(pages) - 1)) : f[1] # last.path}
             \cup {<<last.path, last.text>>}

\* C4 as stated: in both generators, a dry run and a real run on the same
\* inputs make the same external calls and produce the same text for every
\* page, and the dry run makes no directory and writes no file.
C4_AsStated ==
    /\ BothEnded(cli_pc)
       => /\ cli_calls["dry"] = cli_calls["real"]
          /\ cli_pages["dry"] = cli_pages["real"]
          /\ cli_files["dry"] = {}
          /\ ~base_dir_made["dry"]
    /\ BothEnded(launch_pc)
       => /\ launch_calls["dry"] = launch_calls["real"]
          /\ launch_pages["dry"] = launch_pages["real"]
          /\ docs_files["dry"] = {}
          /\ launch_dirs["dry"] = dirs_before

\* C4 amended: in both generators the two runs make the same external calls,
\* the dry run makes no directory and writes no file, and the real run's files
\* hold the pages it rendered.  The CLI-Doc Generator renders the same text for
\* every page in both modes.  The Launch-Doc Generator names the same files in
\* both modes, but its dry run renders no page text.
C4_SameCallsSameCliPages ==
    /\ BothEnded(cli_pc)
       => /\ cli_calls["dry"] = cli_calls["real"]
          /\ cli_pages["dry"] = cli_pages["real"]
          /\ cli_files["dry"] = {}
          /\ ~base_dir_made["dry"]
          /\ cli_files["real"] = FilesOfPages(cli_pages["real"])
    /\ BothEnded(launch_pc)
       => /\ launch_calls["dry"] = launch_calls["real"]
          /\ [k \in 1..Len(launch_pages["dry"]) |-> launch_pages["dry"][k].path]
             = [k \in 1..Len(launch_pages["real"]) |-> launch_pages["real"][k].path]
          /\ \A k \in 1..Len(launch_pages["dry"]) : launch_pages["dry"][k].text = None
          /\ docs_files["dry"] = {}
          /\ launch_dirs["dry"] = dirs_before
          /\ docs_files["real"] = FilesOfPages(launch_pages["real"])

\* both CLI runs finished after three pages, the last call exiting non-zero
C4_Witness ==
    /\ cli_pc["dry"] = "done"
    /\ cli_pc["real"] = "done"
    /\ Len(cli_pages["dry"]) = 3
    /\ Cardinality(cli_files["real"]) = 3
    /\ tool_result[cli_calls["dry"][3]].kind = "nonzero"

(***************************************************************************)
(* Claims about the Template Renderer's helpers (C9, C10)                  *)
(***************************************************************************)

\* the candidates, by position, that exist in the package directory
ExistingCandidates ==
    {i \in 1..Len(dep_files) : package_files[dep_files[i]].exists}

\* a manifest that is read and parsed without an error
Loads(file) == file.exists /\ file.load = "mapping" /\ file.key # "null"

LoadingCandidates == {i \in ExistingCandidates : Loads(package_files[dep_files[i]])}

IsDictEntry(entry) == entry.info.is_dict

\* the dependency entries of a manifest: one record per repository whose info
\* is a mapping, in order, a missing url or version being ""
EntriesOf(file) ==
    IF ~Loads(file) THEN <<>>
    ELSE LET kept == SelectSeq(file.repos, IsDictEntry)
         IN  [n \in 1..Len(kept) |->
                 [name |-> kept[n].name,
                  url |-> IF kept[n].info.url = Absent THEN "" ELSE kept[n].info.url,
                  version |-> IF kept[n].info.version = Absent THEN ""
                              ELSE kept[n].info.version]]

\* C9 as stated: the result holds the entries of the first existing candidate
\* only, whatever the later candidates are, and is empty when none exists.
C9_AsStated ==
    dep_pc = "returned"
    => dep_return =
          IF ExistingCandidates = {} THEN <<>>
          ELSE EntriesOf(package_files[dep_files[SetMin(ExistingCandidates)]])

\* C9 amended: the result holds the entries of the first existing candidate
\* that is read and parsed without an error, whatever the later candidates
\* are; an earlier candidate that exists but fails to load is skipped with a
\* warning; the result is empty when no candidate exists or none loads.
C9_FirstLoadingCandidate ==
    dep_pc = "returned"
    => /\ dep_return =
             IF LoadingCandidates = {} THEN <<>>
             ELSE EntriesOf(package_files[dep_files[SetMin(LoadingCandidates)]])
       /\ Range(dep_warned) =
             {dep_files[i] : i \in {j \in ExistingCandidates :
                                       /\ ~Loads(package_files[dep_files[j]])
                                       /\ \A l \in LoadingCandidates : j < l}}

\* the first existing candidate fails to load, a later one gives the entries
C9_Witness ==
    /\ dep_pc = "returned"
    /\ LoadingCandidates # {}
    /\ SetMin(ExistingCandidates) < SetMin(LoadingCandidates)
    /\ Len(dep_return) = 2
    /\ dep_warned # <<>>

\* C10, its return value: for a package.xml that is missing, or whose parsing
\* fails (the warning is printed), the call returns null metadata: no
\* description, no license, no maintainers, and so no partially parsed field.
\* (The claim also has a missing package.xml warned about, which the formula
\* leaves out.)
C10_AsStated ==
    (meta_pc = "returned" /\ (~pkg_xml.exists \/ meta_warned))
    => meta_return = <<None, None, <<>>>>

====
